---- MODULE Spec2Model ----
(***************************************************************************)
(* Model of load_ohiot1dm_xml (src/src/load_xml_data.py): one call of the  *)
(* loader on one input document, followed statement by statement.          *)
(*                                                                         *)
(* Texts are sequences of one-character strings, so that float() and       *)
(* pd.to_datetime(..., format='%d-%m-%Y %H:%M:%S') are computed from the   *)
(* characters.  None (the result of event.get on an absent attribute) is   *)
(* the one-element sequence <<"None">>, which is no text.                  *)
(***************************************************************************)
EXTENDS Integers, Sequences, FiniteSets, TLC

\* Bound of the input family: elements (sections and their children) of a document.
MaxNodes == 3

-----------------------------------------------------------------------------
(* Texts and values *)

NoneVal == <<"None">>

Digits == {"0", "1", "2", "3", "4", "5", "6", "7", "8", "9"}

DigitVal == ("0" :> 0) @@ ("1" :> 1) @@ ("2" :> 2) @@ ("3" :> 3) @@ ("4" :> 4)
            @@ ("5" :> 5) @@ ("6" :> 6) @@ ("7" :> 7) @@ ("8" :> 8) @@ ("9" :> 9)

\* The number written by a sequence of digits.
RECURSIVE ToNat(_)
ToNat(ds) ==
    IF ds = <<>> THEN 0
    ELSE 10 * ToNat(SubSeq(ds, 1, Len(ds) - 1)) + DigitVal[ds[Len(ds)]]

AllDigits(ds) == \A i \in 1..Len(ds) : ds[i] \in Digits

\* A decimal value num / 10^scale with no trailing zero in the fraction.
RECURSIVE Normalize(_, _)
Normalize(num, scale) ==
    IF scale > 0 /\ num % 10 = 0 THEN Normalize(num \div 10, scale - 1)
    ELSE [num |-> num, scale |-> scale]

ZeroFloat == [num |-> 0, scale |-> 0]

\* float(x): TypeError on None, ValueError on a text that is no decimal
\* numeral, else the value of the numeral.
Float(x) ==
    IF x = NoneVal THEN [err |-> "TypeError", val |-> ZeroFloat]
    ELSE
      LET neg  == Len(x) > 0 /\ x[1] = "-"
          body == IF Len(x) > 0 /\ x[1] \in {"-", "+"} THEN Tail(x) ELSE x
          dots == {i \in 1..Len(body) : body[i] = "."}
          dot  == IF dots = {} THEN Len(body) + 1
                  ELSE CHOOSE i \in dots : \A j \in dots : i <= j
          ip   == SubSeq(body, 1, dot - 1)
          fp   == SubSeq(body, dot + 1, Len(body))
          ok   == /\ AllDigits(ip) /\ AllDigits(fp)
                  /\ Len(ip) + Len(fp) >= 1
          v    == Normalize(ToNat(ip \o fp), Len(fp))
      IN IF ok
         THEN [err |-> "none",
               val |-> [num |-> IF neg THEN 0 - v.num ELSE v.num, scale |-> v.scale]]
         ELSE [err |-> "ValueError", val |-> ZeroFloat]

\* The null timestamp.
NaT == [year |-> 0, month |-> 0, day |-> 0, hour |-> 0, minute |-> 0, second |-> 0]

\* The format of every pd.to_datetime call of the loader.
TimestampFormat == <<"%d", "-", "%m", "-", "%Y", " ", "%H", ":", "%M", ":", "%S">>

IsLeap(y) == (y % 4 = 0 /\ y % 100 # 0) \/ y % 400 = 0

DaysInMonth(y, m) ==
    IF m = 2 THEN (IF IsLeap(y) THEN 29 ELSE 28)
    ELSE IF m \in {4, 6, 9, 11} THEN 30 ELSE 31

\* Number of digits of text at position i onward, at most max.
RECURSIVE DigitRun(_, _, _)
DigitRun(text, i, max) ==
    IF max = 0 \/ i > Len(text) \/ text[i] \notin Digits THEN 0
    ELSE 1 + DigitRun(text, i + 1, max - 1)

\* Match text from position i against the format from directive j on; fields
\* collects the numbers read.  A directive other than %Y reads one or two
\* digits, %Y reads four; a literal matches itself; the whole text is used.
RECURSIVE Strptime(_, _, _, _, _)
Strptime(text, i, fmt, j, fields) ==
    IF j > Len(fmt)
    THEN [ok |-> i = Len(text) + 1, fields |-> fields]
    ELSE IF fmt[j] \in {"%d", "%m", "%Y", "%H", "%M", "%S"}
    THEN LET n == IF fmt[j] = "%Y" THEN DigitRun(text, i, 4)
                  ELSE DigitRun(text, i, 2)
         IN IF n = 0 \/ (fmt[j] = "%Y" /\ n < 4)
            THEN [ok |-> FALSE, fields |-> fields]
            ELSE Strptime(text, i + n, fmt, j + 1,
                          fields @@ (fmt[j] :> ToNat(SubSeq(text, i, i + n - 1))))
    ELSE IF i <= Len(text) /\ text[i] = fmt[j]
    THEN Strptime(text, i + 1, fmt, j + 1, fields)
    ELSE [ok |-> FALSE, fields |-> fields]

\* pd.to_datetime of one cell: None gives NaT, a text of the format gives its
\* date and time, any other text raises ValueError.
ToDatetime(x) ==
    IF x = NoneVal THEN [err |-> "none", val |-> NaT]
    ELSE
      LET r == Strptime(x, 1, TimestampFormat, 1, <<>>)
          f == r.fields
          ok == /\ r.ok
                /\ f["%m"] \in 1..12
                /\ f["%d"] \in 1..DaysInMonth(f["%Y"], f["%m"])
                /\ f["%H"] \in 0..23
                /\ f["%M"] \in 0..59
                /\ f["%S"] \in 0..59
      IN IF ok
         THEN [err |-> "none",
               val |-> [year |-> f["%Y"], month |-> f["%m"], day |-> f["%d"],
                        hour |-> f["%H"], minute |-> f["%M"], second |-> f["%S"]]]
         ELSE [err |-> "ValueError", val |-> NaT]

-----------------------------------------------------------------------------
(* The six sections and their records *)

\* The sections in the order the loader reads them.
Categories == <<"glucose_level", "basal", "temp_basal", "bolus", "meal", "basis_steps">>

CategorySet == {Categories[i] : i \in 1..Len(Categories)}

IndexOf(c) == CHOOSE i \in 1..Len(Categories) : Categories[i] = c

\* The fields of a record of each section, in the order the loader reads
\* them: the column, the attribute it is read from, and how it is read.
Schema(c) ==
    CASE c \in {"glucose_level", "basal", "basis_steps"} ->
           << [col |-> "timestamp", attr |-> "ts", kind |-> "ts"],
              [col |-> "value", attr |-> "value", kind |-> "num"] >>
      [] c = "temp_basal" ->
           << [col |-> "ts_begin", attr |-> "ts_begin", kind |-> "ts"],
              [col |-> "ts_end", attr |-> "ts_end", kind |-> "ts"],
              [col |-> "value", attr |-> "value", kind |-> "num"] >>
      [] c = "bolus" ->
           << [col |-> "ts_begin", attr |-> "ts_begin", kind |-> "ts"],
              [col |-> "ts_end", attr |-> "ts_end", kind |-> "ts"],
              [col |-> "type", attr |-> "type", kind |-> "str"],
              [col |-> "dose", attr |-> "dose", kind |-> "num"],
              [col |-> "bwz_carb_input", attr |-> "bwz_carb_input", kind |-> "num"] >>
      [] c = "meal" ->
           << [col |-> "timestamp", attr |-> "ts", kind |-> "ts"],
              [col |-> "type", attr |-> "type", kind |-> "str"],
              [col |-> "carbs", attr |-> "carbs", kind |-> "num"] >>

Columns(c) == {Schema(c)[i].col : i \in 1..Len(Schema(c))}

\* The columns the loader passes to pd.to_datetime, in the order it does.
TimestampColumns(c) ==
    IF c \in {"temp_basal", "bolus"} THEN <<"ts_begin", "ts_end">> ELSE <<"timestamp">>

\* ResultKey with every table keyed by the name of its section.
ResultKeyIsTag(c) == c

\* The key of each section's table in the returned dictionary.
ResultKey(c) ==
    CASE c = "temp_basal" -> "tempbasal"
      [] c = "basis_steps" -> "step"
      [] OTHER -> c

ResultKeys == {ResultKey(c) : c \in CategorySet}

-----------------------------------------------------------------------------
(* Input documents *)

Ts1 == <<"0", "2", "-", "1", "2", "-", "2", "0", "2", "1", " ", "0", "6", ":", "1", "4", ":", "0", "0">>
Ts2 == <<"0", "1", "-", "0", "1", "-", "2", "0", "2", "1", " ", "0", "0", ":", "0", "5", ":", "0", "0">>
Ts3 == <<"0", "1", "-", "0", "1", "-", "2", "0", "2", "1", " ", "0", "0", ":", "1", "0", ":", "0", "0">>
\* Year first: not of the format.
BadTs == <<"2", "0", "2", "1", "-", "1", "2", "-", "0", "2", " ", "0", "6", ":", "1", "4", ":", "0", "0">>
\* No decimal numeral.
BadNum == <<"n", "/", "a">>

\* The n-th well-formed text (n = 1, 2) of an attribute.
GoodText(attr, n) ==
    CASE attr \in {"ts", "ts_begin"} -> IF n = 1 THEN Ts1 ELSE Ts2
      [] attr = "ts_end" -> IF n = 1 THEN Ts2 ELSE Ts3
      [] attr = "type" -> IF n = 1 THEN <<"n", "o", "r", "m", "a", "l">> ELSE <<"s", "q", "u", "a", "r", "e">>
      [] attr = "value" -> IF n = 1 THEN <<"1", "2", "0", ".", "5">> ELSE <<"5">>
      [] attr = "dose" -> IF n = 1 THEN <<"2", ".", "5">> ELSE <<"5">>
      [] OTHER -> IF n = 1 THEN <<"3", "0", ".", "0">> ELSE <<"5">>

Attrs(c) == {Schema(c)[i].attr : i \in 1..Len(Schema(c))}

KindOf(c, a) == Schema(c)[CHOOSE i \in 1..Len(Schema(c)) : Schema(c)[i].attr = a].kind

GoodEvent(c, n) == [tag |-> "event", attrs |-> [a \in Attrs(c) |-> GoodText(a, n)]]

\* The first good event without attribute a.
Without(c, a) ==
    [tag |-> "event", attrs |-> [b \in Attrs(c) \ {a} |-> GoodText(b, 1)]]

\* The first good event with a text in attribute a that its reader rejects.
Corrupt(c, a) ==
    [tag |-> "event",
     attrs |-> [b \in Attrs(c) |->
                  IF b # a THEN GoodText(b, 1)
                  ELSE IF KindOf(c, a) = "ts" THEN BadTs ELSE BadNum]]

\* A child of a section that is no event.
Comment == [tag |-> "comment", attrs |-> <<>>]

\* The children a section of the input family may have.
Samples(c) ==
    {GoodEvent(c, 1), GoodEvent(c, 2), Comment}
    \cup {Without(c, a) : a \in Attrs(c)}
    \cup {Corrupt(c, a) : a \in {b \in Attrs(c) : KindOf(c, b) # "str"}}

\* The sections of k elements: the section and k - 1 children.
SectionsOfSize(k) ==
    UNION {{[tag |-> c, children |-> es] : es \in [1..(k - 1) -> Samples(c)]}
           : c \in CategorySet}

\* The roots of exactly n elements: sequences of sections.
RECURSIVE RootsOfSize(_)
RootsOfSize(n) ==
    IF n = 0 THEN {<<>>}
    ELSE UNION {{<<s>> \o r : s \in SectionsOfSize(k), r \in RootsOfSize(n - k)}
                : k \in 1..n}

Roots == UNION {RootsOfSize(n) : n \in 0..MaxNodes}

\* What the path names: a well-formed file with its root, or a malformed one.
Sources == {[wellFormed |-> TRUE, root |-> r] : r \in Roots}
           \cup {[wellFormed |-> FALSE, root |-> <<>>]}

-----------------------------------------------------------------------------
(* The library calls of the loader *)

\* Find taking the last child with this tag instead of the first.
FindLast(r, tag) ==
    LET hits == {i \in 1..Len(r) : r[i].tag = tag}
    IN IF hits = {} THEN 0 ELSE CHOOSE i \in hits : \A j \in hits : i >= j

\* root.find(tag): the position of the first child of r with this tag, 0 for None.
Find(r, tag) ==
    LET hits == {i \in 1..Len(r) : r[i].tag = tag}
    IN IF hits = {} THEN 0 ELSE CHOOSE i \in hits : \A j \in hits : i <= j

\* FindAll iterating over every child of the section, whatever its tag.
FindAllChildren(children, tag) == children

\* section.findall(tag): the children with this tag, in document order.
FindAll(children, tag) == SelectSeq(children, LAMBDA e : e.tag = tag)

\* event.get(a): the text of attribute a, None when the event has none.
Get(e, a) == IF a \in DOMAIN e.attrs THEN e.attrs[a] ELSE NoneVal

\* ReadFields checking each timestamp text against the format as it is read.
RECURSIVE ReadFieldsEager(_, _, _, _)
ReadFieldsEager(c, e, i, row) ==
    IF i > Len(Schema(c)) THEN [err |-> "none", call |-> "", row |-> row]
    ELSE LET f == Schema(c)[i]
             x == Get(e, f.attr)
         IN IF f.kind = "num"
            THEN LET r == Float(x)
                 IN IF r.err # "none" THEN [err |-> r.err, call |-> "float", row |-> row]
                    ELSE ReadFieldsEager(c, e, i + 1, row @@ (f.col :> r.val))
            ELSE IF f.kind = "ts" /\ ToDatetime(x).err # "none"
            THEN [err |-> "ValueError", call |-> "pd.to_datetime", row |-> row]
            ELSE ReadFieldsEager(c, e, i + 1, row @@ (f.col :> x))

\* The dictionary built from one event: the fields of the section read in
\* order from field i on, numeric ones through float(); err is the type of
\* the exception that ended the reading and call the call that raised it.
RECURSIVE ReadFields(_, _, _, _)
ReadFields(c, e, i, row) ==
    IF i > Len(Schema(c)) THEN [err |-> "none", call |-> "", row |-> row]
    ELSE LET f == Schema(c)[i]
             x == Get(e, f.attr)
         IN IF f.kind = "num"
            THEN LET r == Float(x)
                 IN IF r.err # "none" THEN [err |-> r.err, call |-> "float", row |-> row]
                    ELSE ReadFields(c, e, i + 1, row @@ (f.col :> r.val))
            ELSE ReadFields(c, e, i + 1, row @@ (f.col :> x))

\* ReadEvents putting each dictionary at the front of the list.
RECURSIVE ReadEventsPrepend(_, _, _, _)
ReadEventsPrepend(c, events, i, rows) ==
    IF i > Len(events) THEN [err |-> "none", call |-> "", rows |-> rows]
    ELSE LET r == ReadFields(c, events[i], 1, <<>>)
         IN IF r.err # "none" THEN [err |-> r.err, call |-> r.call, rows |-> rows]
            ELSE ReadEventsPrepend(c, events, i + 1, <<r.row>> \o rows)

\* The loop over the events of a section, from event i on: one dictionary
\* appended per event.
RECURSIVE ReadEvents(_, _, _, _)
ReadEvents(c, events, i, rows) ==
    IF i > Len(events) THEN [err |-> "none", call |-> "", rows |-> rows]
    ELSE LET r == ReadFields(c, events[i], 1, <<>>)
         IN IF r.err # "none" THEN [err |-> r.err, call |-> r.call, rows |-> rows]
            ELSE ReadEvents(c, events, i + 1, Append(rows, r.row))

\* Extract without the test for None: findall on a missing section raises.
ExtractUnguarded(r, c) ==
    LET k == Find(r, c)
    IN IF k = 0 THEN [err |-> "AttributeError", call |-> "findall", rows |-> <<>>]
       ELSE ReadEvents(c, FindAll(r[k].children, "event"), 1, <<>>)

\* One extraction block: find the section; when there is one, read its events.
Extract(r, c) ==
    LET k == Find(r, c)
    IN IF k = 0 THEN [err |-> "none", call |-> "", rows |-> <<>>]
       ELSE ReadEvents(c, FindAll(r[k].children, "event"), 1, <<>>)

\* pd.DataFrame(list of dictionaries): the rows in list order, the columns
\* the keys of the dictionaries (none for the empty list).
DataFrame(rows) ==
    [columns |-> IF Len(rows) = 0 THEN {} ELSE DOMAIN rows[1], rows |-> rows]

\* Empty never holding: the conversions run unguarded.
EmptyUnchecked(frame) == FALSE

\* df.empty
Empty(frame) == Len(frame.rows) = 0 \/ frame.columns = {}

\* ConvertColumn with errors='coerce': a cell not of the format becomes NaT.
ConvertColumnCoerce(frame, col) ==
    IF col \notin frame.columns
    THEN [err |-> "KeyError", call |-> "df[col]", frame |-> frame]
    ELSE LET n == Len(frame.rows)
         IN [err |-> "none", call |-> "",
             frame |-> [frame EXCEPT
                 !.rows = [i \in 1..n |->
                             [frame.rows[i] EXCEPT ![col] = ToDatetime(frame.rows[i][col]).val]]]]

\* df[col] = pd.to_datetime(df[col], format=...): KeyError when there is no
\* such column, ValueError when a cell is not of the format.
ConvertColumn(frame, col) ==
    IF col \notin frame.columns
    THEN [err |-> "KeyError", call |-> "df[col]", frame |-> frame]
    ELSE LET n == Len(frame.rows)
             r == [i \in 1..n |-> ToDatetime(frame.rows[i][col])]
         IN IF \E i \in 1..n : r[i].err # "none"
            THEN [err |-> "ValueError", call |-> "pd.to_datetime", frame |-> frame]
            ELSE [err |-> "none", call |-> "",
                  frame |-> [frame EXCEPT
                      !.rows = [i \in 1..n |-> [frame.rows[i] EXCEPT ![col] = r[i].val]]]]

\* The conversions of the timestamp columns cols of a table, from column j on.
RECURSIVE ConvertColumns(_, _, _)
ConvertColumns(frame, cols, j) ==
    IF j > Len(cols) THEN [err |-> "none", call |-> "", frame |-> frame]
    ELSE LET r == ConvertColumn(frame, cols[j])
         IN IF r.err # "none" THEN r ELSE ConvertColumns(r.frame, cols, j + 1)

-----------------------------------------------------------------------------
(* One call of load_ohiot1dm_xml *)

VARIABLES
    source,     \* what xml_file_path names
    pc,         \* the statement the call is at
    root,       \* tree.getroot()
    data,       \* the six lists glucose_data .. step_data, by section
    df,         \* the six tables df_glucose .. df_step, by section
    tsParsed,   \* the sections whose table was passed to pd.to_datetime
    err,        \* the exception that ended the call, "none" while there is none
    result      \* the dictionary returned, <<>> while nothing is returned

vars == <<source, pc, root, data, df, tsParsed, err, result>>

At(phase, c) == [phase |-> phase, cat |-> c]

\* The statement after the block of section c in a phase whose last block
\* is followed by `after`.
Following(phase, c, after) ==
    IF IndexOf(c) < Len(Categories) THEN At(phase, Categories[IndexOf(c) + 1])
    ELSE At(after, "")

NoFrame == [columns |-> {}, rows |-> <<>>]

\* An exception: its type, the call that raised it and the section whose
\* block made the call.
Exception(type, call, c) == [type |-> type, call |-> call, cat |-> c]

NoException == Exception("none", "", "")

Init ==
    /\ source \in Sources
    /\ pc = At("parse", "")
    /\ root = <<>>
    /\ data = [c \in CategorySet |-> <<>>]
    /\ df = [c \in CategorySet |-> NoFrame]
    /\ tsParsed = {}
    /\ err = NoException
    /\ result = <<>>

\* An exception leaves the call: nothing is caught, nothing is returned.
Raise(e) ==
    /\ err' = e
    /\ pc' = At("raised", "")

\* ET.parse and getroot, then the six empty lists.
Parse ==
    /\ pc = At("parse", "")
    /\ IF source.wellFormed
       THEN /\ root' = source.root
            /\ pc' = At("extract", Categories[1])
            /\ err' = err
       ELSE /\ Raise(Exception("ParseError", "ET.parse", ""))
            /\ root' = root
    /\ data' = [c \in CategorySet |-> <<>>]
    /\ UNCHANGED <<source, df, tsParsed, result>>

\* The extraction block of section c.
ExtractStep(c) ==
    /\ pc = At("extract", c)
    /\ LET r == Extract(root, c)
       IN IF r.err = "none"
          THEN /\ data' = [data EXCEPT ![c] = r.rows]
               /\ pc' = Following("extract", c, "frames")
               /\ err' = err
          ELSE /\ Raise(Exception(r.err, r.call, c))
               /\ data' = data
    /\ UNCHANGED <<source, root, df, tsParsed, result>>

ExtractGlucoseLevel == ExtractStep("glucose_level")
ExtractBasal == ExtractStep("basal")
ExtractTempBasal == ExtractStep("temp_basal")
ExtractBolus == ExtractStep("bolus")
ExtractMeal == ExtractStep("meal")
ExtractBasisSteps == ExtractStep("basis_steps")

\* The six pd.DataFrame calls.
CreateFrames ==
    /\ pc = At("frames", "")
    /\ df' = [c \in CategorySet |-> DataFrame(data[c])]
    /\ pc' = At("convert", Categories[1])
    /\ UNCHANGED <<source, root, data, tsParsed, err, result>>

\* The timestamp conversion of the table of section c, guarded by df.empty.
ConvertStep(c) ==
    /\ pc = At("convert", c)
    /\ IF ~Empty(df[c])
       THEN LET r == ConvertColumns(df[c], TimestampColumns(c), 1)
            IN /\ tsParsed' = tsParsed \cup {c}
               /\ IF r.err = "none"
                  THEN /\ df' = [df EXCEPT ![c] = r.frame]
                       /\ pc' = Following("convert", c, "return")
                       /\ err' = err
                  ELSE /\ Raise(Exception(r.err, r.call, c))
                       /\ df' = df
       ELSE /\ pc' = Following("convert", c, "return")
            /\ UNCHANGED <<df, tsParsed, err>>
    /\ UNCHANGED <<source, root, data, result>>

ConvertGlucoseLevel == ConvertStep("glucose_level")
ConvertBasal == ConvertStep("basal")
ConvertTempBasal == ConvertStep("temp_basal")
ConvertBolus == ConvertStep("bolus")
ConvertMeal == ConvertStep("meal")
ConvertBasisSteps == ConvertStep("basis_steps")

\* The dictionary of the six tables.
ResultOf(frames) ==
    [k \in ResultKeys |-> frames[CHOOSE c \in CategorySet : ResultKey(c) = k]]

Return ==
    /\ pc = At("return", "")
    /\ result' = ResultOf(df)
    /\ pc' = At("returned", "")
    /\ UNCHANGED <<source, root, data, df, tsParsed, err>>

Next ==
    \/ Parse
    \/ ExtractGlucoseLevel
    \/ ExtractBasal
    \/ ExtractTempBasal
    \/ ExtractBolus
    \/ ExtractMeal
    \/ ExtractBasisSteps
    \/ CreateFrames
    \/ ConvertGlucoseLevel
    \/ ConvertBasal
    \/ ConvertTempBasal
    \/ ConvertBolus
    \/ ConvertMeal
    \/ ConvertBasisSteps
    \/ Return

Spec == Init /\ [][Next]_vars

-----------------------------------------------------------------------------
(* The call as a function of its input *)

\* The six extraction blocks from the i-th on.
RECURSIVE ExtractAll(_, _, _)
ExtractAll(r, i, lists) ==
    IF i > Len(Categories) THEN [err |-> NoException, data |-> lists]
    ELSE LET c == Categories[i]
             x == Extract(r, c)
         IN IF x.err # "none"
            THEN [err |-> Exception(x.err, x.call, c), data |-> lists]
            ELSE ExtractAll(r, i + 1, [lists EXCEPT ![c] = x.rows])

\* The six guarded conversions from the i-th on.
RECURSIVE ConvertAll(_, _)
ConvertAll(frames, i) ==
    IF i > Len(Categories) THEN [err |-> NoException, df |-> frames]
    ELSE LET c == Categories[i]
         IN IF Empty(frames[c]) THEN ConvertAll(frames, i + 1)
            ELSE LET x == ConvertColumns(frames[c], TimestampColumns(c), 1)
                 IN IF x.err # "none"
                    THEN [err |-> Exception(x.err, x.call, c), df |-> frames]
                    ELSE ConvertAll([frames EXCEPT ![c] = x.frame], i + 1)

\* The exception raised and the dictionary returned by a call on src.
Load(src) ==
    IF ~src.wellFormed
    THEN [err |-> Exception("ParseError", "ET.parse", ""), result |-> <<>>]
    ELSE LET x == ExtractAll(src.root, 1, [c \in CategorySet |-> <<>>])
         IN IF x.err # NoException THEN [err |-> x.err, result |-> <<>>]
            ELSE LET y == ConvertAll([c \in CategorySet |-> DataFrame(x.data[c])], 1)
                 IN IF y.err # NoException THEN [err |-> y.err, result |-> <<>>]
                    ELSE [err |-> NoException, result |-> ResultOf(y.df)]

-----------------------------------------------------------------------------
(* Properties *)

Returned == pc = At("returned", "")
Raised == pc = At("raised", "")

Terminated == Returned \/ Raised

\* The document read from the source.
Document == source.root

SectionsNamed(c) == {i \in 1..Len(Document) : Document[i].tag = c}

Present(c) == SectionsNamed(c) # {}

FirstSection(c) ==
    Document[CHOOSE i \in SectionsNamed(c) : \A j \in SectionsNamed(c) : i <= j]

EventChildren(section) == SelectSeq(section.children, LAMBDA e : e.tag = "event")

\* The event children of the first section named c, none without a section.
FirstEvents(c) == IF Present(c) THEN EventChildren(FirstSection(c)) ELSE <<>>

\* The table of section c in the returned dictionary.
Table(c) == result[ResultKey(c)]

AttrsOfKind(c, kind) == {a \in Attrs(c) : KindOf(c, a) = kind}

ColumnsOfKind(c, kind) ==
    {Schema(c)[i].col : i \in {j \in 1..Len(Schema(c)) : Schema(c)[j].kind = kind}}

AttrOfColumn(c, col) ==
    Schema(c)[CHOOSE i \in 1..Len(Schema(c)) : Schema(c)[i].col = col].attr

\* The record of event e of section c: timestamps read by the format,
\* numbers by float, strings as they are.
RecordOf(c, e) ==
    [col \in Columns(c) |->
        LET a == AttrOfColumn(c, col)
            x == IF a \in DOMAIN e.attrs THEN e.attrs[a] ELSE NoneVal
        IN CASE KindOf(c, a) = "num" -> Float(x).val
             [] KindOf(c, a) = "ts" -> ToDatetime(x).val
             [] OTHER -> x]

RecordsOf(c, events) == [i \in 1..Len(events) |-> RecordOf(c, events[i])]

MissingAttribute(c, e) == \E a \in Attrs(c) : a \notin DOMAIN e.attrs

UnparseableNumeric(c, e) ==
    \E a \in AttrsOfKind(c, "num") \cap DOMAIN e.attrs : Float(e.attrs[a]).err = "ValueError"

MissingNumeric(c, e) == \E a \in AttrsOfKind(c, "num") : a \notin DOMAIN e.attrs

MalformedTimestamp(c, e) ==
    \E a \in AttrsOfKind(c, "ts") \cap DOMAIN e.attrs : ToDatetime(e.attrs[a]).err # "none"

SomeEvent(events, P(_)) == \E i \in 1..Len(events) : P(events[i])

\* The timestamp columns of the rows of a table are the timestamps of the
\* texts the loader collected for them.
TimestampsParsed(c, frame) ==
    \A i \in 1..Len(frame.rows) : \A col \in ColumnsOfKind(c, "ts") :
        frame.rows[i][col] = ToDatetime(data[c][i][col]).val

\* C1 as stated: a successful call returns a mapping whose keys are exactly
\* the six section names glucose_level, basal, temp_basal, bolus, meal,
\* basis_steps.
C1_KeysAreSectionNames ==
    Returned =>
        DOMAIN result =
            {"glucose_level", "basal", "temp_basal", "bolus", "meal", "basis_steps"}

\* C1 amended: a successful call returns a mapping whose keys are exactly
\* glucose_level, basal, tempbasal, bolus, meal, step, each bound to one
\* table, whichever sections the document contains.
C1_KeysOfResult ==
    Returned =>
        /\ DOMAIN result = {"glucose_level", "basal", "tempbasal", "bolus", "meal", "step"}
        /\ \A k \in DOMAIN result : DOMAIN result[k] = {"columns", "rows"}

C1_Witness ==
    /\ Returned
    /\ \E c \in CategorySet : Present(c) /\ Len(FirstEvents(c)) > 0
    /\ \E c \in CategorySet : ~Present(c)

\* C2: for every section that is a child of the root, the returned table has
\* as many rows as the section has event children, and its i-th row is the
\* record of the i-th event child.
C2_RowsFollowEvents ==
    Returned =>
        \A c \in CategorySet :
            Present(c) =>
                /\ Len(Table(c).rows) = Len(FirstEvents(c))
                /\ \A i \in 1..Len(FirstEvents(c)) :
                       Table(c).rows[i] = RecordOf(c, FirstEvents(c)[i])

C2_Witness ==
    /\ Returned
    /\ \E c \in CategorySet :
          /\ Len(FirstEvents(c)) = 2
          /\ Len(FirstSection(c).children) = 2
          /\ Table(c).rows[1] # Table(c).rows[2]

\* C3: a section missing from the document never makes the call fail in
\* that section's block, and its table in the returned mapping has no row.
C3_MissingSectionEmpty ==
    \A c \in CategorySet :
        ~Present(c) =>
            /\ ~(Raised /\ err.cat = c)
            /\ Returned => Len(Table(c).rows) = 0 /\ Table(c).columns = {}

C3_Witness ==
    /\ Returned
    /\ Cardinality({c \in CategorySet : ~Present(c)}) = 4
    /\ \E c \in CategorySet : Len(FirstEvents(c)) > 0

\* C4: when an event of a section lacks an attribute of the section's
\* schema, the call fails and returns no table.
C4_MissingAttributeFails ==
    (/\ Terminated
     /\ \E c \in CategorySet :
           SomeEvent(FirstEvents(c), LAMBDA e : MissingAttribute(c, e)))
    => Raised /\ result = <<>>

\* C5: the call is all-or-nothing: a dictionary exists only once the call
\* has returned, so a call that raised returned nothing; and a call returns
\* only without exception, on a well-formed document with no unparseable
\* number and no malformed timestamp in the sections read, with six
\* completed tables.
C5_AllOrNothing ==
    /\ result # <<>> => Returned
    /\ Raised => err # NoException
    /\ Returned =>
          /\ err = NoException
          /\ source.wellFormed
          /\ \A c \in CategorySet :
                ~SomeEvent(FirstEvents(c),
                           LAMBDA e : UnparseableNumeric(c, e) \/ MalformedTimestamp(c, e))
          /\ Cardinality(DOMAIN result) = 6
          /\ \A c \in CategorySet :
                /\ Len(Table(c).rows) = Len(FirstEvents(c))
                /\ TimestampsParsed(c, Table(c))

C5_Witness ==
    /\ Raised
    /\ err.call = "pd.to_datetime"
    /\ result = <<>>
    /\ Len(df[err.cat].rows) = 2

\* C6: in a returned table every timestamp field of every row is the
\* timestamp written by the event's text, and none is null.
C6_NoNullTimestamp ==
    Returned =>
        \A c \in CategorySet : \A i \in 1..Len(Table(c).rows) :
            \A col \in ColumnsOfKind(c, "ts") :
                /\ Table(c).rows[i][col] # NaT
                /\ AttrOfColumn(c, col) \in DOMAIN FirstEvents(c)[i].attrs
                /\ Table(c).rows[i][col] =
                       ToDatetime(FirstEvents(c)[i].attrs[AttrOfColumn(c, col)]).val

\* C7: when the root has two or more sections of one name, the table holds
\* exactly the records of the events of the first of them, and a failure in
\* that section's block comes from an event of the first.
C7_FirstDuplicateOnly ==
    \A c \in CategorySet :
        Cardinality(SectionsNamed(c)) >= 2 =>
            /\ Returned => Table(c).rows = RecordsOf(c, FirstEvents(c))
            /\ (Raised /\ err.cat = c) =>
                  SomeEvent(FirstEvents(c),
                            LAMBDA e : \/ UnparseableNumeric(c, e)
                                       \/ MissingNumeric(c, e)
                                       \/ MalformedTimestamp(c, e))

C7_Witness ==
    /\ Returned
    /\ \E c \in CategorySet : \E i \in SectionsNamed(c) :
          /\ Cardinality(SectionsNamed(c)) = 2
          /\ Document[i] # FirstSection(c)
          /\ SomeEvent(EventChildren(Document[i]),
                       LAMBDA e : UnparseableNumeric(c, e) \/ MalformedTimestamp(c, e))
          /\ Len(Table(c).rows) = 0

\* C8: the timestamp parsing of a section is attempted only when its table
\* has a row, so a table without rows never raises from it, and at the
\* return the sections parsed are exactly those whose table has a row, with
\* every timestamp column parsed.
C8_ParsingIffRows ==
    /\ \A c \in tsParsed : Len(df[c].rows) > 0
    /\ (Raised /\ err.call \in {"pd.to_datetime", "df[col]"}) => Len(df[err.cat].rows) > 0
    /\ Returned =>
          \A c \in CategorySet :
              /\ c \in tsParsed <=> Len(Table(c).rows) > 0
              /\ TimestampsParsed(c, Table(c))

C8_Witness ==
    /\ Returned
    /\ \E c \in CategorySet : c \in tsParsed /\ Len(Table(c).rows) > 0
    /\ \E c \in CategorySet : Present(c) /\ c \notin tsParsed

\* The document without the sections named c.
WithoutSections(c) == SelectSeq(Document, LAMBDA s : s.tag # c)

StatedOrder == <<"glucose_level", "basal", "temp_basal", "bolus", "meal", "basis_steps">>

StatedIndex(c) == CHOOSE i \in 1..Len(StatedOrder) : StatedOrder[i] = c

Extracted(c) == Len(data[c]) = Len(FirstEvents(c))

====
